---- MODULE Spec2Model ----
(***************************************************************************)
(* Metadata crawler of mooncrawl (metadata_crawler/cli.py): one run of     *)
(* parse_metadata over the token URIs of a blockchain, with the staleness  *)
(* sampler leak_of_crawled_uri, the fetcher crawl_uri and the per-chunk    *)
(* write transactions on the label table.                                  *)
(***************************************************************************)
EXTENDS Integers, Sequences, FiniteSets, TLC

\* ------------------------------------------------------------------ bounds
MaxTokens == 2         \* longest list get_uris_of_tokens returns
MaxInitLabels == 2     \* labels in the table when the run starts
MaxBatch == 2          \* largest --commit-batch-size
MaxBudget == 2         \* largest --max-recrawl
DrawDen == 3           \* random.random() yields d / DrawDen, d in 0..DrawDen-1

\* ---------------------------------------------------------------- universe
Addresses == <<"a1", "a2">>
TokenIdOrder == <<"1", "2">>
TokenIds == {TokenIdOrder[i] : i \in 1..Len(TokenIdOrder)}
AddressSet == {Addresses[i] : i \in 1..Len(Addresses)}
Null == "null"
Payloads == {"json"}

\* TokenURIRecord rows (token_uri is determined by the row and left out)
Records == [address : AddressSet, token_id : TokenIds]

\* Outcomes of one urlopen + json.loads attempt
Outcomes == {"ok", "non_200", "http_error", "transport_error", "bad_json"}

SeqToSet(s) == {s[i] : i \in 1..Len(s)}

IsIn(x, s) == \E i \in 1..Len(s) : s[i] = x

\* Lists without repeated rows, up to n long
RECURSIVE NoDupSeqs(_)
NoDupSeqs(n) ==
  IF n = 0 THEN {<<>>}
  ELSE LET shorter == NoDupSeqs(n - 1)
       IN shorter \cup
          {Append(p[1], p[2]) :
             p \in {q \in shorter \X Records :
                      Len(q[1]) = n - 1 /\ ~IsIn(q[2], q[1])}}

\* ------------------------------------------------------------ label table
\* A label row; id orders the rows of one token (the latest has the largest)
Label(a, t, m, id) == [address |-> a, token_id |-> t, metadata |-> m, id |-> id]

KeyList == [i \in 1..(Len(Addresses) * Len(TokenIdOrder)) |->
              [address |-> Addresses[((i - 1) \div Len(TokenIdOrder)) + 1],
               token_id |-> TokenIdOrder[((i - 1) % Len(TokenIdOrder)) + 1]]]

RECURSIVE SumTo(_, _)
SumTo(f, n) == IF n = 0 THEN 0 ELSE f[n] + SumTo(f, n - 1)

\* cnt[k] rows for the k-th token, ids in the order they were written
InitTable(cnt) ==
  {Label(KeyList[p[1]].address, KeyList[p[1]].token_id, "old",
         (p[1] - 1) * MaxInitLabels + p[2]) :
     p \in {q \in (1..Len(KeyList)) \X (1..MaxInitLabels) : q[2] <= cnt[q[1]]}}

\* Tables the run can start from: MaxInitLabels rows in all, a token may have several
InitTables ==
  {InitTable(cnt) :
     cnt \in {f \in [1..Len(KeyList) -> 0..MaxInitLabels] :
                SumTo(f, Len(KeyList)) <= MaxInitLabels}}

\* the id of the next row written: later than every row there is
NextId(view) ==
  IF view = {} THEN 1
  ELSE 1 + (CHOOSE n \in {l.id : l \in view} : \A l \in view : l.id <= n)

LabelsOf(view, a, t) == {l \in view : l.address = a /\ l.token_id = t}

\* at most one row per (address, token_id)
Unique(view) ==
  \A l \in view, o \in view :
    (l.address = o.address /\ l.token_id = o.token_id) => l.id = o.id

\* db.clean_labels_from_db: drop every row of the address but the latest of each token
clean_labels_from_db(view, a) ==
  {l \in view : l.address # a \/
                \A o \in LabelsOf(view, a, l.token_id) : o.id <= l.id}

\* db.get_current_metadata_for_address: the token ids that have a label
RECURSIVE ParsedUpTo(_, _, _)
ParsedUpTo(view, a, n) ==
  IF n = 0 THEN <<>>
  ELSE LET front == ParsedUpTo(view, a, n - 1)
       IN IF LabelsOf(view, a, TokenIdOrder[n]) # {}
          THEN Append(front, TokenIdOrder[n]) ELSE front

get_current_metadata_for_address(view, a) == ParsedUpTo(view, a, Len(TokenIdOrder))

\* db.metadata_to_label
metadata_to_label(metadata, rec, id) == Label(rec.address, rec.token_id, metadata, id)

\* ------------------------------------------------------------------ sampler
\* leak_rate of parse_metadata as a fraction <<numerator, denominator>>
LeakRate(budget, n) ==
  IF n > 0
  THEN IF budget > n THEN <<1, 1>> ELSE <<budget, n>>
  ELSE <<0, 1>>

RateInRange(rate) == 0 <= rate[1] /\ rate[1] <= rate[2]

DrawBelow(d, rate) == d * rate[2] < rate[1] * DrawDen

\* random.random() > leak_rate, with the draw d / DrawDen
DrawAbove(d, rate) == d * rate[2] > rate[1] * DrawDen

RetainedByDrawOnly(id, rate, mu, d) == DrawAbove(d, rate)

\* One iteration of the loop of leak_of_crawled_uri: is id appended to result
Retained(id, rate, mu, d) ==
  IF id \notin mu THEN TRUE ELSE DrawAbove(d, rate)

RECURSIVE LeakUpTo(_, _, _, _, _)
LeakUpTo(ids, rate, mu, draws, n) ==
  IF n = 0 THEN <<>>
  ELSE LET front == LeakUpTo(ids, rate, mu, draws, n - 1)
       IN IF Retained(ids[n], rate, mu, draws[n]) THEN Append(front, ids[n]) ELSE front

leak_of_crawled_uri_prepending(ids, rate, mu, draws) ==
  LET kept == LeakUpTo(ids, rate, mu, draws, Len(ids))
  IN [i \in 1..Len(kept) |-> kept[Len(kept) + 1 - i]]

leak_of_crawled_uri(ids, rate, mu, draws) == LeakUpTo(ids, rate, mu, draws, Len(ids))

OnWorkListInverted(rec, parsed_with_leak_) == IsIn(rec.token_id, parsed_with_leak_)

\* "Remove already parsed tokens": the rows kept on the work list
OnWorkList(rec, parsed_with_leak_) == ~IsIn(rec.token_id, parsed_with_leak_)

RECURSIVE FilterUpTo(_, _, _)
FilterUpTo(rows, skip, n) ==
  IF n = 0 THEN <<>>
  ELSE LET front == FilterUpTo(rows, skip, n - 1)
       IN IF OnWorkList(rows[n], skip) THEN Append(front, rows[n]) ELSE front

WorkList(rows, skip) == FilterUpTo(rows, skip, Len(rows))

\* ----------------------------------------------------------------- grouping
RECURSIVE RowsOfUpTo(_, _, _)
RowsOfUpTo(rows, a, n) ==
  IF n = 0 THEN <<>>
  ELSE LET front == RowsOfUpTo(rows, a, n - 1)
       IN IF rows[n].address = a THEN Append(front, rows[n]) ELSE front

RECURSIVE KeyOrderUpTo(_, _)
KeyOrderUpTo(rows, n) ==
  IF n = 0 THEN <<>>
  ELSE LET front == KeyOrderUpTo(rows, n - 1)
       IN IF IsIn(rows[n].address, front) THEN front ELSE Append(front, rows[n].address)

\* tokens_uri_by_address after the grouping loop, and the order of its keys
GroupBy(rows) == [a \in AddressSet |-> RowsOfUpTo(rows, a, Len(rows))]
KeyOrder(rows) == KeyOrderUpTo(rows, Len(rows))

\* ------------------------------------------------------------------ fetcher
RetryLimitOffByOne == 3 + 1

RetryLimit == 3

CaughtHttpOnly(o) == o = "http_error"

\* The except clauses of crawl_uri: HTTPError, then Exception
Caught(o) == o \in {"http_error", "transport_error", "bad_json"}

ContinueNoBreak(o, retry_) == retry_ < RetryLimit

\* The while loop of crawl_uri goes round again
Continue(o, retry_) == o # "ok" /\ retry_ < RetryLimit

\* One pass through the body of the while loop, the attempt ending as o
AfterAttempt(o, payload, retry_, result_) ==
  IF o = "ok"
  THEN [retry |-> retry_, result |-> payload, raised |-> FALSE]
  ELSE IF o = "non_200" \/ Caught(o)
  THEN [retry |-> retry_ + 1, result |-> result_, raised |-> FALSE]
  ELSE [retry |-> retry_, result |-> result_, raised |-> TRUE]

\* No run of crawl_uri is followed beyond this many attempts
AttemptCap == RetryLimit + 2

\* Every way a call of crawl_uri can end: what it returns (or that it raised)
\* and the number of urlopen calls it made
RECURSIVE CrawlRuns(_, _, _)
CrawlRuns(retry_, result_, attempts_) ==
  UNION {LET s == AfterAttempt(p[1], p[2], retry_, result_)
         IN IF s.raised
            THEN {[result |-> Null, attempts |-> attempts_ + 1, raised |-> TRUE]}
            ELSE IF Continue(p[1], s.retry) /\ attempts_ + 1 < AttemptCap
            THEN CrawlRuns(s.retry, s.result, attempts_ + 1)
            ELSE {[result |-> s.result, attempts |-> attempts_ + 1, raised |-> FALSE]} :
         p \in Outcomes \X Payloads}

crawl_uri == CrawlRuns(0, Null, 0)

\* -------------------------------------------------------------------- state
VARIABLES
  uris_of_tokens,          \* rows returned by get_uris_of_tokens
  batch_size,              \* --commit-batch-size
  max_recrawl,             \* --max-recrawl
  tokens_uri_by_address,   \* the dict of parse_metadata
  addrIdx,                 \* position of the for loop over the dict
  already_parsed, maybe_updated, leak_rate, parsed_with_leak,
  chunkStart,              \* i of the current requests_chunk
  itemIdx,                 \* position of token_uri_data in the work list
  writed_labels,
  retry, result,           \* locals of crawl_uri
  attempts,                \* urlopen calls made by the current crawl_uri
  trace,                   \* how the attempts of the current crawl_uri ended
  committed,               \* label rows durable in the database
  session,                 \* label rows as db_session sees them
  chunkBase,               \* rows durable at the last transaction boundary
  log,                     \* chunks begun, committed, rolled back; final cleanups
  last,                    \* the latest step on the database, with its cause
  uniqueAtStart,           \* the table held at most one row per token when the run began
  pc

vars == <<uris_of_tokens, batch_size, max_recrawl, tokens_uri_by_address, addrIdx,
          already_parsed, maybe_updated, leak_rate, parsed_with_leak,
          chunkStart, itemIdx, writed_labels, retry, result, attempts, trace,
          committed, session, chunkBase, log, last, uniqueAtStart, pc>>

inputs == <<uris_of_tokens, batch_size, max_recrawl, uniqueAtStart>>
sample == <<already_parsed, maybe_updated, leak_rate, parsed_with_leak>>
crawl == <<retry, result, attempts, trace>>

BatchSizes == -1..MaxBatch
Budgets == -1..MaxBudget

keys == KeyOrder(uris_of_tokens)
address == keys[addrIdx]
work == tokens_uri_by_address[address]

\* range(0, len(work), batch_size) still has chunkStart in it
HasChunk == batch_size > 0 /\ chunkStart < Len(work)
ChunkEnd == IF chunkStart + batch_size < Len(work)
            THEN chunkStart + batch_size ELSE Len(work)

Event(ev) == [ev |-> ev, address |-> address, i |-> chunkStart]
Step(ev, why) == [ev |-> ev, why |-> why, address |-> address, i |-> chunkStart]

\* The listings of a run; the addresses are named in the order they first appear
Listings ==
  {rows \in NoDupSeqs(MaxTokens) :
     \A i \in 1..Len(KeyOrder(rows)) : KeyOrder(rows)[i] = Addresses[i]}

Init ==
  /\ uris_of_tokens \in Listings
  /\ batch_size \in BatchSizes
  /\ max_recrawl \in Budgets
  /\ committed \in InitTables
  /\ uniqueAtStart = Unique(committed)
  /\ session = committed
  /\ tokens_uri_by_address = GroupBy(uris_of_tokens)
  /\ addrIdx = 1
  /\ already_parsed = <<>> /\ maybe_updated = {} /\ leak_rate = <<0, 1>>
  /\ parsed_with_leak = <<>>
  /\ chunkStart = 0 /\ itemIdx = 0 /\ writed_labels = 0
  /\ retry = 0 /\ result = Null /\ attempts = 0 /\ trace = <<>>
  /\ chunkBase = committed
  /\ log = <<>>
  /\ last = [ev |-> "none", why |-> "none", address |-> "none", i |-> 0]
  /\ pc = "address"

\* db_session.close() in the finally clause: an open transaction is rolled back
Close(s, c) == c

RollbackKeeps(s, c) == s

\* db_session.rollback() / the exit of "with db_session.begin()" on an exception
Rollback(s, c) == c

AfterRollbackLeavesAddress(i, size, n) == n

\* the i of the chunk after a chunk that was rolled back
AfterRollback(i, size, n) == i + size

FinalCleanupIfWork(n) == n > 0

\* the statement after the chunk loop is reached with n rows on the work list
FinalCleanupRuns(n) == TRUE

\* ------------------------------------------------------------------ actions
\* The locals of the sampling step are not read after line 153
SampleDead ==
  /\ already_parsed' = <<>> /\ maybe_updated' = {} /\ leak_rate' = <<0, 1>>
  /\ parsed_with_leak' = <<>>

\* An exception leaves parse_metadata: the finally clause closes the session
Abort(why) ==
  /\ session' = Close(session, committed)
  /\ last' = Step("abort", why)
  /\ pc' = "aborted"
  /\ UNCHANGED <<inputs, addrIdx, chunkStart, itemIdx, writed_labels, crawl,
                 committed, chunkBase, log>>

\* Lines 113-158 for the next address: load, sample, prune, build the chunks
StartAddress ==
  /\ pc = "address" /\ addrIdx <= Len(keys)
  /\ LET ap == get_current_metadata_for_address(committed, address)
     IN \E mu \in SUBSET TokenIds, draws \in [1..Len(ap) -> 0..(DrawDen - 1)] :
          LET rate == LeakRate(max_recrawl, Cardinality(mu))
              kept == leak_of_crawled_uri(ap, rate, mu, draws)
          IN /\ already_parsed' = ap
             /\ maybe_updated' = mu
             /\ leak_rate' = rate
             /\ IF ~RateInRange(rate)
                THEN /\ Abort("assert")
                     /\ UNCHANGED <<parsed_with_leak, tokens_uri_by_address>>
                ELSE /\ parsed_with_leak' = kept
                     /\ tokens_uri_by_address' =
                          [tokens_uri_by_address EXCEPT ![address] = WorkList(@, kept)]
                     /\ IF batch_size = 0
                        THEN /\ session' = Close(session, committed)
                             /\ last' = Step("abort", "range")
                             /\ pc' = "aborted"
                             /\ UNCHANGED chunkStart
                        ELSE /\ chunkStart' = 0
                             /\ last' = Step("start", "address")
                             /\ pc' = "chunk"
                             /\ UNCHANGED session
                     /\ UNCHANGED <<inputs, addrIdx, itemIdx, writed_labels, crawl,
                                    committed, chunkBase, log>>

LoadFailSkipsAddress ==
  /\ pc = "address" /\ addrIdx <= Len(keys)
  /\ addrIdx' = addrIdx + 1
  /\ last' = Step("abort", "load")
  /\ UNCHANGED <<inputs, sample, tokens_uri_by_address, chunkStart, itemIdx,
                 writed_labels, crawl, committed, session, chunkBase, log, pc>>

\* get_current_metadata_for_address or get_tokens_id_wich_may_updated raises
LoadFail ==
  /\ pc = "address" /\ addrIdx <= Len(keys)
  /\ Abort("load")
  /\ UNCHANGED <<sample, tokens_uri_by_address>>

\* Lines 159-163: commit what the session holds, open the chunk's transaction
BeginChunk ==
  /\ pc = "chunk" /\ HasChunk
  /\ committed' = session
  /\ chunkBase' = session
  /\ writed_labels' = 0
  /\ itemIdx' = chunkStart + 1
  /\ result' = Null /\ attempts' = 0
  /\ log' = Append(log, Event("begin"))
  /\ last' = Step("begin", "chunk")
  /\ pc' = "item"
  /\ SampleDead
  /\ UNCHANGED <<inputs, tokens_uri_by_address, addrIdx, chunkStart,
                 session, retry, trace>>

\* db_session.commit() of line 160 raises, outside the try
PendingCommitFail ==
  /\ pc = "chunk" /\ HasChunk
  /\ Abort("commit")
  /\ UNCHANGED <<sample, tokens_uri_by_address>>

\* Lines 186-191: the chunk's transaction is rolled back, the loop goes on
RollbackChunk(why) ==
  /\ session' = Rollback(session, committed)
  /\ log' = Append(log, Event("rollback"))
  /\ last' = Step("rollback", why)
  /\ chunkStart' = AfterRollback(chunkStart, batch_size, Len(work))
  /\ result' = Null /\ attempts' = 0
  /\ pc' = "chunk"
  /\ UNCHANGED <<inputs, sample, tokens_uri_by_address, addrIdx, itemIdx,
                 writed_labels, committed, chunkBase, retry, trace>>

AddLabelThenClean(view, label, a) == clean_labels_from_db(view \cup {label}, a)

\* db_session.add(label) inside the loop over the items of a chunk of address a
AddLabel(view, label, a) == view \cup {label}

\* Lines 164-174: one item of the chunk is fetched and its label added
Item ==
  /\ pc = "item"
  /\ \E r \in crawl_uri :
       IF r.raised
       THEN RollbackChunk("fetch")
       ELSE /\ result' = r.result
            /\ attempts' = r.attempts
            /\ session' = AddLabel(session,
                                    metadata_to_label(r.result, work[itemIdx],
                                                      NextId(session)),
                                    address)
            /\ writed_labels' = writed_labels + 1
            /\ last' = Step("add", "item")
            /\ IF itemIdx < ChunkEnd
               THEN itemIdx' = itemIdx + 1 /\ pc' = "item"
               ELSE itemIdx' = itemIdx /\ pc' = "cleanup"
            /\ UNCHANGED <<inputs, sample, tokens_uri_by_address, addrIdx, chunkStart,
                           committed, chunkBase, log, retry, trace>>

\* metadata_to_label or db_session.add raises for the fetched item
InsertFail ==
  /\ pc = "item"
  /\ \E r \in crawl_uri : ~r.raised
  /\ RollbackChunk("insert")

ChunkCleanupLeftOut ==
  /\ pc = "cleanup"
  /\ pc' = "commit"
  /\ last' = Step("clean", "chunk")
  /\ result' = Null /\ attempts' = 0
  /\ UNCHANGED <<inputs, sample, tokens_uri_by_address, addrIdx, chunkStart, itemIdx,
                 writed_labels, retry, trace, committed, session, chunkBase, log>>

\* Lines 176-184: the cleanup inside the chunk's transaction
ChunkCleanup ==
  /\ pc = "cleanup"
  /\ IF writed_labels > 0
     THEN /\ session' = clean_labels_from_db(session, address)
          /\ last' = Step("clean", "chunk")
     ELSE UNCHANGED <<session, last>>
  /\ pc' = "commit"
  /\ result' = Null /\ attempts' = 0
  /\ UNCHANGED <<inputs, sample, tokens_uri_by_address, addrIdx, chunkStart, itemIdx,
                 writed_labels, retry, trace, committed, chunkBase, log>>

\* clean_labels_from_db raises inside the transaction
ChunkCleanupFail ==
  /\ pc = "cleanup" /\ writed_labels > 0
  /\ RollbackChunk("cleanup")

\* Line 185: the with block ends and the transaction is committed
Commit ==
  /\ pc = "commit"
  /\ committed' = session
  /\ chunkBase' = session
  /\ log' = Append(log, Event("commit"))
  /\ last' = Step("commit", "chunk")
  /\ chunkStart' = chunkStart + batch_size
  /\ pc' = "chunk"
  /\ UNCHANGED <<inputs, sample, tokens_uri_by_address, addrIdx, itemIdx,
                 writed_labels, crawl, session>>

\* the commit at the end of the with block raises
CommitFail ==
  /\ pc = "commit"
  /\ RollbackChunk("commit")

\* Lines 193-197: the cleanup after the chunks of the address, then the next address
FinalCleanup ==
  /\ pc = "chunk" /\ ~HasChunk
  /\ IF FinalCleanupRuns(Len(work))
     THEN /\ session' = clean_labels_from_db(session, address)
          /\ log' = Append(log, Event("final"))
          /\ last' = Step("final", "address")
     ELSE UNCHANGED <<session, log, last>>
  /\ addrIdx' = addrIdx + 1
  /\ chunkStart' = 0 /\ itemIdx' = 0 /\ writed_labels' = 0
  /\ pc' = "address"
  /\ SampleDead
  /\ UNCHANGED <<inputs, tokens_uri_by_address, crawl, committed, chunkBase>>

\* clean_labels_from_db raises outside the chunk transactions
FinalCleanupFail ==
  /\ pc = "chunk" /\ ~HasChunk
  /\ Abort("cleanup")
  /\ UNCHANGED <<sample, tokens_uri_by_address>>

\* Lines 199-200: the loop over the addresses is over, the session is closed
Finish ==
  /\ pc = "address" /\ addrIdx > Len(keys)
  /\ session' = Close(session, committed)
  /\ pc' = "done"
  /\ UNCHANGED <<inputs, sample, tokens_uri_by_address, addrIdx, chunkStart, itemIdx,
                 writed_labels, crawl, committed, chunkBase, log, last>>

Next ==
  \/ StartAddress \/ LoadFail
  \/ BeginChunk \/ PendingCommitFail \/ Item \/ InsertFail
  \/ ChunkCleanup \/ ChunkCleanupFail \/ Commit \/ CommitFail
  \/ FinalCleanup \/ FinalCleanupFail
  \/ Finish

Spec == Init /\ [][Next]_vars

\* ------------------------------------------------- crawl_uri, step by step
\* One call of crawl_uri on its own; the run's variables stay as constructed
InitFetch ==
  /\ uris_of_tokens = <<>> /\ batch_size = 1 /\ max_recrawl = 0
  /\ committed = {} /\ session = {}
  /\ uniqueAtStart = Unique({})
  /\ tokens_uri_by_address = GroupBy(<<>>)
  /\ addrIdx = 1
  /\ already_parsed = <<>> /\ maybe_updated = {} /\ leak_rate = <<0, 1>>
  /\ parsed_with_leak = <<>>
  /\ chunkStart = 0 /\ itemIdx = 0 /\ writed_labels = 0
  /\ retry = 0 /\ result = Null /\ attempts = 0 /\ trace = <<>>
  /\ chunkBase = {}
  /\ log = <<>>
  /\ last = [ev |-> "none", why |-> "none", address |-> "none", i |-> 0]
  /\ pc = "fetch"

run == <<inputs, sample, tokens_uri_by_address, addrIdx, chunkStart, itemIdx,
         writed_labels, committed, session, chunkBase, log, last>>

\* Lines 65-82: one round of the while loop
FetchAttempt ==
  /\ pc = "fetch" /\ attempts < AttemptCap
  /\ \E o \in Outcomes, payload \in Payloads :
       LET s == AfterAttempt(o, payload, retry, result)
       IN /\ retry' = s.retry
          /\ result' = s.result
          /\ attempts' = attempts + 1
          /\ trace' = Append(trace, o)
          /\ pc' = IF s.raised THEN "raised"
                   ELSE IF Continue(o, s.retry) THEN "fetch" ELSE "return"
  /\ UNCHANGED run

\* Line 83: return result
FetchReturn ==
  /\ pc = "return"
  /\ pc' = "returned"
  /\ UNCHANGED <<run, crawl>>

NextFetch == FetchAttempt \/ FetchReturn

SpecFetch == InitFetch /\ [][NextFetch]_vars

NoOk(s) == \A i \in 1..Len(s) : s[i] # "ok"

\* C7: when the first three attempts of crawl_uri all fail, whatever the mix of
\* non-200 status, HTTP error, transport error and undecodable body, it returns
\* null after exactly 3 attempts, and no call ever makes a fourth attempt.
FetcherExhaustion ==
  /\ attempts <= 3
  /\ Len(trace) = attempts
  /\ (Len(trace) >= 3 /\ NoOk(SubSeq(trace, 1, 3)))
       => /\ pc \in {"return", "returned"}
          /\ attempts = 3
          /\ result = Null
  /\ (pc = "returned" /\ NoOk(trace)) => (attempts = 3 /\ result = Null)

FetcherExhaustionWitness ==
  /\ pc = "returned"
  /\ trace = <<"non_200", "transport_error", "bad_json">>
  /\ result = Null /\ attempts = 3

\* C8: crawl_uri returns the payload of the first attempt k (1 <= k <= 3) that
\* answers 200 with a decodable body, after exactly k attempts: the attempts
\* before it failed, none follows it, and a success at once costs 1 attempt.
FetcherSuccess ==
  /\ NoOk(SubSeq(trace, 1, Len(trace) - 1))
  /\ pc = "fetch" => NoOk(trace)
  /\ (pc \in {"return", "returned"} /\ ~NoOk(trace))
       => /\ trace[Len(trace)] = "ok"
          /\ Len(trace) \in 1..3
          /\ attempts = Len(trace)
          /\ result \in Payloads
  /\ (pc \in {"return", "returned"} /\ trace # <<>> /\ trace[1] = "ok") => attempts = 1
  /\ pc # "raised"

FetcherSuccessWitness ==
  /\ pc = "returned"
  /\ trace = <<"http_error", "ok">>
  /\ attempts = 2 /\ result \in Payloads

\* ------------------------------------------------------ claims on the run
Sampled == pc = "chunk" /\ chunkStart = 0 /\ last.ev = "start"
Has(ev, a) == \E k \in 1..Len(log) : log[k].ev = ev /\ log[k].address = a
Position(rec, rows) == CHOOSE i \in 1..Len(rows) : rows[i] = rec
InChunk == pc \in {"item", "cleanup", "commit"}

\* C1: when a step of a chunk fails (whichever item, the cleanup or the commit),
\* the rollback leaves the persisted labels exactly as they were when the chunk's
\* transaction began: none of the chunk's labels is persisted, no label is removed
\* by the chunk's cleanup, and the session holds nothing of the chunk that a later
\* commit could persist.
ChunkAtomicity ==
  /\ InChunk => committed = chunkBase
  /\ last.ev = "rollback" => (committed = chunkBase /\ session = chunkBase)

ChunkAtomicityWitness ==
  /\ last.ev = "rollback" /\ last.why = "commit"
  /\ writed_labels = 2
  /\ \E t \in TokenIds : Cardinality(LabelsOf(committed, last.address, t)) = 2

\* i is the start of a chunk of range(0, n, size)
IsChunkStart(i, n, size) == size > 0 /\ 0 <= i /\ i < n /\ i % size = 0

\* C2: a failed chunk never aborts the address or the run: right after the rollback
\* the loop stands at the next chunk, no chunk is begun twice, and once an address
\* is finished each of its chunks has been attempted exactly once.
ChunkFailureIsolation ==
  /\ last.ev = "rollback"
       => /\ pc = "chunk"
          /\ address = last.address
          /\ chunkStart = last.i + batch_size
  /\ \A j \in 1..Len(log), k \in 1..Len(log) :
       (j < k /\ log[j].ev = "begin" /\ log[k].ev = "begin"
          /\ log[j].address = log[k].address)
         => log[j].i # log[k].i
  /\ \A k \in 1..Len(log) :
       log[k].ev = "begin"
         => IsChunkStart(log[k].i, Len(tokens_uri_by_address[log[k].address]), batch_size)
  /\ \A j \in 1..Len(keys) :
       j < addrIdx =>
         \A i \in 0..(Len(tokens_uri_by_address[keys[j]]) - 1) :
           IsChunkStart(i, Len(tokens_uri_by_address[keys[j]]), batch_size)
             => \E k \in 1..Len(log) :
                  log[k] = [ev |-> "begin", address |-> keys[j], i |-> i]

ChunkFailureIsolationWitness ==
  /\ pc = "done"
  /\ \E j \in 1..Len(log), k \in 1..Len(log) :
       /\ j < k
       /\ log[j].ev = "rollback"
       /\ log[k].ev = "commit"

\* C3: after a run (chunk size > 0, budget >= 0) with no chunk failure and no
\* address-level error the persisted view holds at most one label per
\* (address, token_id) of every address processed, the last address and the labels
\* from before the run included.
CurrentViewUnique ==
  (/\ pc = "done"
   /\ batch_size > 0 /\ max_recrawl >= 0
   /\ \A k \in 1..Len(log) : log[k].ev # "rollback")
    => \A j \in 1..Len(keys), t \in TokenIds :
         Cardinality(LabelsOf(committed, keys[j], t)) <= 1

\* C4: every id of already_parsed that is not in maybe_updated is in the list
\* leak_of_crawled_uri returns, whatever the leak rate and the draws, and no row
\* of such an id is on the work list.
SamplerLowerBound ==
  Sampled =>
    /\ \A i \in 1..Len(already_parsed) :
         already_parsed[i] \notin maybe_updated
           => IsIn(already_parsed[i], parsed_with_leak)
    /\ \A i \in 1..Len(work) :
         ~(IsIn(work[i].token_id, already_parsed) /\ work[i].token_id \notin maybe_updated)

SamplerLowerBoundWitness ==
  /\ Sampled
  /\ already_parsed = <<"1", "2">>
  /\ maybe_updated = {"2"}
  /\ parsed_with_leak = <<"1">>
  /\ Len(work) = 1

\* C5: with a recrawl budget of 0 the sampler retains all of already_parsed,
\* whatever maybe_updated is and whatever the draws are (a draw of 0 included).
ZeroBudgetRetainsAll ==
  (Sampled /\ max_recrawl = 0) => parsed_with_leak = already_parsed

\* C6: the work list of an address is exactly its rows whose token_id is not in the
\* retained list, in the order of the listing; so every row of a never-parsed token
\* is on it, and with nothing parsed nothing is retained and every row is on it.
WorkListExact ==
  Sampled =>
    /\ \A rec \in Records :
         IsIn(rec, work) <=> /\ IsIn(rec, uris_of_tokens)
                             /\ rec.address = address
                             /\ ~IsIn(rec.token_id, parsed_with_leak)
    /\ \A i \in 1..Len(work), j \in 1..Len(work) :
         i < j => Position(work[i], uris_of_tokens) < Position(work[j], uris_of_tokens)
    /\ \A i \in 1..Len(uris_of_tokens) :
         (uris_of_tokens[i].address = address
            /\ ~IsIn(uris_of_tokens[i].token_id, already_parsed))
           => IsIn(uris_of_tokens[i], work)
    /\ already_parsed = <<>>
         => /\ parsed_with_leak = <<>>
            /\ \A i \in 1..Len(uris_of_tokens) :
                 uris_of_tokens[i].address = address => IsIn(uris_of_tokens[i], work)

WorkListExactWitness ==
  /\ Sampled
  /\ uris_of_tokens = <<[address |-> "a1", token_id |-> "2"],
                        [address |-> "a1", token_id |-> "1"]>>
  /\ already_parsed = <<"2">>
  /\ parsed_with_leak = <<"2">>
  /\ work = <<[address |-> "a1", token_id |-> "1"]>>

\* C9: a fetch failure never blocks the batch: no rollback is caused by crawl_uri
\* raising; an item whose attempts are exhausted still gets a label with a null
\* payload, the loop goes on to the next item or to the cleanup, and a chunk that
\* is committed persists one label for each of its items.
FetchFailureNeverBlocks ==
  /\ last.why # "fetch"
  /\ (last.ev = "add" /\ attempts = 3 /\ result = Null)
       => /\ pc \in {"item", "cleanup"}
          /\ writed_labels >= 1
          /\ metadata_to_label(Null,
                               work[IF pc = "item" THEN itemIdx - 1 ELSE itemIdx],
                               NextId(session) - 1) \in session
  /\ last.ev = "commit"
       => \A n \in (last.i + 1)..Len(work) :
            n <= last.i + batch_size
              => \E l \in committed :
                   /\ l.address = work[n].address /\ l.token_id = work[n].token_id
                   /\ l.metadata \in Payloads \cup {Null}

FetchFailureNeverBlocksWitness ==
  /\ last.ev = "commit" /\ last.i = 0
  /\ Len(work) = 2 /\ batch_size = 2
  /\ \E l \in committed, m \in committed :
       /\ l.address = work[1].address /\ l.token_id = work[1].token_id
       /\ m.address = work[2].address /\ m.token_id = work[2].token_id
       /\ l.metadata = Null /\ m.metadata \in Payloads

Finals(a) == {k \in 1..Len(log) : log[k].ev = "final" /\ log[k].address = a}

\* C10: for every address the run processes, exactly one cleanup is invoked after
\* its last chunk has been committed or rolled back and before the next address
\* starts, outside any chunk transaction; also when chunks failed and when the
\* work list is empty.
FinalCleanupPerAddress ==
  /\ \A j \in 1..Len(keys) :
       Cardinality(Finals(keys[j])) = IF j < addrIdx THEN 1 ELSE 0
  /\ \A k \in 1..Len(log) :
       log[k].ev = "final" =>
         /\ \A m \in 1..Len(log) :
              (log[m].address = log[k].address /\ m # k) => m < k
         /\ (k > 1 /\ log[k - 1].address = log[k].address)
              => log[k - 1].ev \in {"commit", "rollback"}

FinalCleanupPerAddressWitness ==
  /\ pc = "done"
  /\ Len(keys) = 2
  /\ Has("rollback", "a1") /\ ~Has("commit", "a1") /\ Has("final", "a1")
  /\ ~Has("begin", "a2") /\ Has("final", "a2")

\* C11: an error while loading already_parsed or maybe_updated for an address leaves
\* parse_metadata and ends the run: the run stands aborted with no step left to take,
\* no chunk was begun and no cleanup run for that address or a later one, and the
\* labels of every chunk committed before are still persisted.
AddressErrorFatal ==
  (last.ev = "abort" /\ last.why = "load")
    => /\ pc = "aborted"
       /\ ~ENABLED Next
       /\ session = committed /\ committed = chunkBase
       /\ \A k \in 1..Len(log) :
            /\ \E j \in 1..Len(keys) : j < addrIdx /\ log[k].address = keys[j]
            /\ log[k].ev = "commit"
                 => \A n \in (log[k].i + 1)..Len(tokens_uri_by_address[log[k].address]) :
                      n <= log[k].i + batch_size
                        => \E l \in committed :
                             /\ l.address = log[k].address
                             /\ l.token_id = tokens_uri_by_address[log[k].address][n].token_id
                             /\ l.metadata # "old"

AddressErrorFatalWitness ==
  /\ last.ev = "abort" /\ last.why = "load"
  /\ addrIdx = 2
  /\ Has("commit", "a1")
  /\ \E l \in committed : l.address = "a1" /\ l.metadata # "old"

\* the rows of the listing that belong to address a
ListedAt(a) == RowsOfUpTo(uris_of_tokens, a, Len(uris_of_tokens))

NoRollback == \A k \in 1..Len(log) : log[k].ev # "rollback"

\* the budget is at least |maybe_updated| whatever maybe_updated is
BudgetCoversAll == max_recrawl >= Cardinality(TokenIds)

\* exactly one persisted label for each listed token of address a: one written by
\* the run for each work-list item, the earlier one for each retained token
Covered(a) ==
  \A n \in 1..Len(ListedAt(a)) :
    LET rec == ListedAt(a)[n]
        rows == LabelsOf(committed, rec.address, rec.token_id)
    IN /\ Cardinality(rows) = 1
       /\ \A l \in rows :
            IF IsIn(rec, tokens_uri_by_address[a])
            THEN l.metadata \in Payloads \cup {Null}
            ELSE l.metadata = "old"

\* C12: after a run in which no chunk fails, with a budget of at least
\* |maybe_updated|, an address with tokens already parsed ends with exactly one
\* persisted label for each of its listed tokens: a new label for each work-list
\* item and the untouched earlier label for each retained token.
EndToEndCoverage ==
  (pc = "done" /\ batch_size > 0 /\ BudgetCoversAll /\ NoRollback)
    => \A j \in 1..Len(keys) :
         (\E l \in committed : l.address = keys[j] /\ l.metadata = "old")
           => Covered(keys[j])

\* C12, where it holds: the same for every budget >= 0, for an address that has
\* work items (as in the five-token example) or whose tokens had at most one label each
\* when the run began.
EndToEndCoverageWhenCleaned ==
  (pc = "done" /\ batch_size > 0 /\ max_recrawl >= 0 /\ NoRollback)
    => \A j \in 1..Len(keys) :
         (uniqueAtStart \/ Len(tokens_uri_by_address[keys[j]]) > 0)
           => Covered(keys[j])

\* token 1 was retained; token 2 had a label, was flagged, leaked and re-fetched
EndToEndCoverageWhenCleanedWitness ==
  /\ pc = "done"
  /\ batch_size > 0 /\ BudgetCoversAll /\ uniqueAtStart /\ NoRollback
  /\ Len(ListedAt("a1")) = 2
  /\ committed = {Label("a1", "1", "old", 1),
                  Label("a1", "2", "json", 2 * MaxInitLabels)}

NotFlagged(id) == id \notin maybe_updated

\* C13: when maybe_updated is not empty and the budget is at least |maybe_updated|
\* the leak rate is 1 and, whatever the draws, every id of already_parsed that is in
\* maybe_updated is leaked: the retained list is already_parsed without the ids of
\* maybe_updated, and the work list is the rows of the address whose token was never
\* parsed or is flagged.
FullLeak ==
  (Sampled /\ maybe_updated # {} /\ max_recrawl >= Cardinality(maybe_updated))
    => /\ leak_rate[1] = leak_rate[2]
       /\ parsed_with_leak = SelectSeq(already_parsed, NotFlagged)
       /\ \A rec \in Records :
            IsIn(rec, work) <=> /\ IsIn(rec, uris_of_tokens)
                                /\ rec.address = address
                                /\ \/ ~IsIn(rec.token_id, already_parsed)
                                   \/ rec.token_id \in maybe_updated

FullLeakWitness ==
  /\ Sampled
  /\ max_recrawl = 1 /\ maybe_updated = {"2"}
  /\ already_parsed = <<"1", "2">>
  /\ parsed_with_leak = <<"1">>
  /\ work = <<[address |-> "a1", token_id |-> "2"]>>

\* the sampling step of the current address has computed its leak rate
RateComputed == Sampled \/ (last.ev = "abort" /\ last.why \in {"assert", "range"})

\* rate is min(1, budget / n) for n > 0 and 0 for n = 0
IsMinRate(rate, budget, n) ==
  IF n > 0
  THEN IF budget >= n THEN rate[1] = rate[2] ELSE rate[1] * n = budget * rate[2]
  ELSE rate[1] = 0

\* C14: for every budget --max-recrawl accepts and every maybe_updated, the leak
\* rate is min(1, budget / |maybe_updated|), or 0 when maybe_updated is empty, it
\* lies in [0, 1], and the assertion of leak_of_crawled_uri never fails.
LeakRateInRange ==
  /\ last.why # "assert"
  /\ RateComputed
       => /\ IsMinRate(leak_rate, max_recrawl, Cardinality(maybe_updated))
          /\ leak_rate[2] > 0
          /\ 0 <= leak_rate[1] /\ leak_rate[1] <= leak_rate[2]

\* C14 for the budgets >= 0 only
LeakRateInRangeFromZero == max_recrawl >= 0 => LeakRateInRange

\* the chunk begun at log[k] holds position p of the work list of its address
InChunkOf(k, a, p) ==
  /\ log[k].ev = "begin" /\ log[k].address = a
  /\ log[k].i < p /\ p <= log[k].i + batch_size

\* C15: for every work list and every chunk size --commit-batch-size accepts, the
\* chunks are consecutive slices that make up the work list in order: building them
\* never fails, every chunk is non-empty with at most batch_size items and exactly
\* batch_size unless it is the last, every chunk begins where the one before ended,
\* each work item of a finished address lies in exactly one chunk (none for an empty
\* work list), and a chunk that reaches its commit has fetched each of its items.
ChunkPartition ==
  /\ last.why # "range"
  /\ InChunk
       => /\ 0 <= chunkStart /\ chunkStart < ChunkEnd /\ ChunkEnd <= Len(work)
          /\ ChunkEnd - chunkStart <= batch_size
          /\ ChunkEnd < Len(work) => ChunkEnd - chunkStart = batch_size
          /\ chunkStart < itemIdx /\ itemIdx <= ChunkEnd
          /\ pc = "commit" => writed_labels = ChunkEnd - chunkStart
  /\ \A k \in 1..Len(log) :
       log[k].ev = "begin"
         => \/ log[k].i = 0
            \/ \E m \in 1..(k - 1) :
                 /\ log[m].ev = "begin" /\ log[m].address = log[k].address
                 /\ log[m].i + batch_size = log[k].i
  /\ \A j \in 1..Len(keys) :
       j < addrIdx
         => \A p \in 1..Len(tokens_uri_by_address[keys[j]]) :
              \E k \in 1..Len(log) :
                /\ InChunkOf(k, keys[j], p)
                /\ \A m \in 1..Len(log) : InChunkOf(m, keys[j], p) => m = k

\* C15 for the chunk sizes >= 1 only
ChunkPartitionFromOne == batch_size >= 1 => ChunkPartition

\* every item of the current chunk has a label staged in the session by this run
ChunkStaged ==
  \A n \in (chunkStart + 1)..ChunkEnd :
    \E l \in session :
      /\ l.address = work[n].address /\ l.token_id = work[n].token_id
      /\ l.metadata \in Payloads \cup {Null}

\* C16: inside a chunk's transaction the cleanup of the address runs at most once:
\* not between the inserts (while items are staged nothing has been deleted), only
\* after every item of the chunk is fetched and its label staged, only with at
\* least one label staged, and before the commit, which directly follows it.
InChunkCleanupOrder ==
  /\ pc = "item"
       => /\ last.ev \in {"begin", "add"}
          /\ writed_labels = itemIdx - chunkStart - 1
          /\ chunkBase \subseteq session
  /\ pc = "cleanup"
       => /\ last.ev = "add"
          /\ chunkBase \subseteq session
          /\ Cardinality(session) = Cardinality(chunkBase) + writed_labels
  /\ pc = "commit" => last.ev = "clean"
  /\ last.ev = "clean"
       => /\ pc = "commit"
          /\ writed_labels >= 1
          /\ writed_labels = ChunkEnd - chunkStart
          /\ ChunkStaged
          /\ committed = chunkBase

\* both items of a chunk staged, then the cleanup removed the label one superseded
InChunkCleanupOrderWitness ==
  /\ last.ev = "clean" /\ pc = "commit"
  /\ writed_labels = 2
  /\ Cardinality(session) = Cardinality(chunkBase) + 1

\* C17: unless loading the sampling inputs of an address fails, the run reaches
\* Done: it never stops short of it (the only run that ends before Done ended on a
\* load error, and every other state has a next step), at Done every address of the
\* grouping has been processed exactly once, no chunk is begun twice, and no fetch
\* makes more than 3 attempts.
RunReachesDone ==
  /\ pc = "aborted" => last.why = "load"
  /\ pc \notin {"done", "aborted"} => ENABLED Next
  /\ pc = "done"
       => /\ addrIdx = Len(keys) + 1
          /\ \A j \in 1..Len(keys) : Cardinality(Finals(keys[j])) = 1
  /\ \A j \in 1..Len(log), k \in 1..Len(log) :
       (j < k /\ log[j].ev = "begin" /\ log[k].ev = "begin"
          /\ log[j].address = log[k].address)
         => log[j].i # log[k].i
  /\ attempts <= 3 /\ \A r \in crawl_uri : r.attempts <= 3

\* C17 with every error raised outside the chunks' try counted as ending the run
RunReachesDoneUnlessRaised ==
  \/ pc = "aborted" /\ last.ev = "abort"
       /\ last.why \in {"load", "assert", "range", "commit", "cleanup"}
  \/ pc # "aborted" /\ (last.why = "load" => pc = "aborted") /\ RunReachesDone

\* s is t with some elements left out, the others in the order of t
RECURSIVE IsSubSeq(_, _)
IsSubSeq(s, t) ==
  IF s = <<>> THEN TRUE
  ELSE IF t = <<>> THEN FALSE
  ELSE IF Head(s) = Head(t) THEN IsSubSeq(Tail(s), Tail(t))
  ELSE IsSubSeq(s, Tail(t))

\* C18: whatever the inputs and the draws, the list leak_of_crawled_uri returns is a
\* sub-sequence of already_parsed in the same order; it holds no id that is not in
\* already_parsed, so the rows of an id that is in maybe_updated but was never parsed
\* stay on the work list.
SamplerUpperBound ==
  Sampled =>
    /\ IsSubSeq(parsed_with_leak, already_parsed)
    /\ \A i \in 1..Len(parsed_with_leak) : IsIn(parsed_with_leak[i], already_parsed)
    /\ \A i \in 1..Len(uris_of_tokens) :
         (/\ uris_of_tokens[i].address = address
          /\ uris_of_tokens[i].token_id \in maybe_updated
          /\ ~IsIn(uris_of_tokens[i].token_id, already_parsed))
           => IsIn(uris_of_tokens[i], work)

\* token 1 is flagged but was never parsed; token 2 is flagged, parsed and retained
SamplerUpperBoundWitness ==
  /\ Sampled
  /\ maybe_updated = {"1", "2"}
  /\ already_parsed = <<"2">>
  /\ parsed_with_leak = <<"2">>
  /\ work = <<[address |-> "a1", token_id |-> "1"]>>

====
